---- MODULE Spec2Model ----
(***************************************************************************)
(* A model of scripts/validate_boomi_xml.py, the CI validator for Boomi    *)
(* process XMLs.                                                           *)
(*                                                                         *)
(* Strings the program inspects (attribute values, labels, identifiers)    *)
(* are sequences of one-character strings, so that strip(), lower() and    *)
(* the "in" substring test are computed and not assumed.  Fixed message    *)
(* texts are carried by the "kind" of a message.                           *)
(***************************************************************************)
EXTENDS Naturals, Sequences, FiniteSets

\* ------------------------------------------------------------ bounds

\* Most file arguments on a command line.
MaxFiles == 2
\* Most elements below the root in a document of SpecRule1.
MaxShapesRule1 == 2
\* Most elements below the root in a document of SpecRule2.
MaxShapesRule2 == 2
\* Most elements below the root in a document of SpecDedup.
MaxShapesDedup == 6

\* ----------------------------------------------------------- strings

Whitespace == {" ", "\t", "\n", "\r"}

UpperCase ==
    <<"A", "B", "C", "D", "E", "F", "G", "H", "I", "J", "K", "L", "M",
      "N", "O", "P", "Q", "R", "S", "T", "U", "V", "W", "X", "Y", "Z">>

LowerCase ==
    <<"a", "b", "c", "d", "e", "f", "g", "h", "i", "j", "k", "l", "m",
      "n", "o", "p", "q", "r", "s", "t", "u", "v", "w", "x", "y", "z">>

\* str.lower() on one character.
LowerChar(c) ==
    IF \E i \in 1..Len(UpperCase) : UpperCase[i] = c
    THEN LowerCase[CHOOSE i \in 1..Len(UpperCase) : UpperCase[i] = c]
    ELSE c

\* str.lower()
Lower(s) == [i \in 1..Len(s) |-> LowerChar(s[i])]

RECURSIVE LStrip(_)
LStrip(s) ==
    IF s # <<>> /\ Head(s) \in Whitespace THEN LStrip(Tail(s)) ELSE s

RECURSIVE RStrip(_)
RStrip(s) ==
    IF s # <<>> /\ s[Len(s)] \in Whitespace
    THEN RStrip(SubSeq(s, 1, Len(s) - 1))
    ELSE s

\* str.strip()
Strip(s) == RStrip(LStrip(s))

\* needle in s
Contains(needle, s) ==
    \E i \in 0..Len(s) :
        /\ i + Len(needle) <= Len(s)
        /\ SubSeq(s, i + 1, i + Len(needle)) = needle

\* An attribute lookup: shape.get(name) is None or a string.
None == [some |-> FALSE, val |-> <<>>]
Some(s) == [some |-> TRUE, val |-> s]

\* Python's "a or b" on Optional[str] operands: a when a is truthy.
Truthy(a) == a.some /\ a.val # <<>>
PyOr(a, b) == IF Truthy(a) THEN a ELSE b

\* ---------------------------------------------------------- constants

ID1 ==
    <<"a", "b", "1", "2", "c", "d", "3", "4", "-", "5", "6", "7", "8", "-", "9", "0", "e", "f", "-", "g", "h", "i", "j", "-", "k", "l", "m", "n", "o", "p", "q", "r", "s", "t", "u", "v">>
ID2 ==
    <<"f", "f", "0", "0", "a", "a", "1", "1", "-", "2", "2", "3", "3", "-", "4", "4", "5", "5", "-", "6", "6", "7", "7", "-", "8", "8", "9", "9", "0", "0", "b", "b", "c", "c", "d", "d">>
ID3 ==
    <<"1", "5", "1", "4", "1", "1", "a", "c", "-", "6", "7", "2", "4", "-", "2", "1", "a", "e", "-", "g", "i", "z", "-", "0", "0", "0", "0", "0", "0", "0", "0", "a", "z", "z", "1", "a">>
ID4 ==
    <<"1", "2", "3", "4", "5", "6", "7", "8", "-", "9", "a", "b", "c", "-", "d", "e", "f", "0", "-", "1", "2", "3", "4", "-", "5", "6", "7", "8", "9", "a", "b", "c", "d", "e", "f", "0">>

BLOCKLIST == {ID1, ID2, ID3, ID4}

ReturnDocuments ==
    <<"r", "e", "t", "u", "r", "n", "d", "o", "c", "u", "m", "e", "n", "t", "s">>

ErrorNeedle ==
    <<"e", "r", "r", "o", "r">>

NoLabel ==
    <<"(", "n", "o", " ", "l", "a", "b", "e", "l", ")">>

\* uniq[:5]
MaxListed == 5

\* ------------------------------------------------------- element tree

(***************************************************************************)
(* An element is its tag and the four attributes the program reads.  A     *)
(* document is its elements in document order with each one's parent       *)
(* (0 for the root, which is element 1).                                   *)
(***************************************************************************)
Elem(tag, shapetype, userlabel, label, componentId) ==
    [tag |-> tag, shapetype |-> shapetype, userlabel |-> userlabel,
     label |-> label, componentId |-> componentId]

\* shape.get(name)
Get(e, name) ==
    CASE name = "shapetype" -> e.shapetype
      [] name = "userlabel" -> e.userlabel
      [] name = "label" -> e.label
      [] name = "componentId" -> e.componentId

RECURSIVE IsDescendant(_, _, _)
IsDescendant(doc, j, i) ==
    /\ doc.parent[j] # 0
    /\ \/ doc.parent[j] = i
       \/ IsDescendant(doc, doc.parent[j], i)

RECURSIVE SelectIndices(_, _, _)
SelectIndices(doc, j, keep) ==
    IF j > Len(doc.nodes) THEN <<>>
    ELSE (IF j \in keep THEN <<doc.nodes[j]>> ELSE <<>>)
         \o SelectIndices(doc, j + 1, keep)

\* root.xpath(".//shape"): the root's descendants tagged shape, in document order.
DescendantShapes(doc) ==
    SelectIndices(doc, 1,
        {j \in 1..Len(doc.nodes) :
            IsDescendant(doc, j, 1) /\ doc.nodes[j].tag = "shape"})

\* root.xpath(".//shape[@shapetype='returndocuments']")
ReturnDocumentsShapes(doc) ==
    SelectSeq(DescendantShapes(doc),
              LAMBDA e : e.shapetype.some /\ e.shapetype.val = ReturnDocuments)

\* root.xpath(".//shape[@componentId]")
ComponentIdShapes(doc) ==
    SelectSeq(DescendantShapes(doc), LAMBDA e : e.componentId.some)

\* --------------------------------------------------------------- rules

\* shape_label without its strip()
shape_label_unstripped(shape) ==
    PyOr(Get(shape, "userlabel"), PyOr(Get(shape, "label"), Some(<<>>))).val

shape_label(shape) ==
    Strip(PyOr(Get(shape, "userlabel"),
               PyOr(Get(shape, "label"), Some(<<>>))).val)

Msg(kind, label, items, more, err) ==
    [kind |-> kind, label |-> label, items |-> items, more |-> more,
     err |-> err]

RECURSIVE ErrorHandlingLoop(_, _, _)
ErrorHandlingLoop(shapes, k, candidates) ==
    IF k > Len(shapes)
    THEN IF candidates # <<>>
         THEN [ok |-> FALSE,
               msg |-> Msg("rule1_fail_labels", <<>>, candidates, 0, "")]
         ELSE [ok |-> FALSE, msg |-> Msg("rule1_fail_no_shape", <<>>, <<>>, 0, "")]
    ELSE LET lbl == shape_label(shapes[k])
         IN  IF Contains(ErrorNeedle, Lower(lbl))
             THEN [ok |-> TRUE, msg |-> Msg("rule1_ok", lbl, <<>>, 0, "")]
             ELSE ErrorHandlingLoop(shapes, k + 1,
                      Append(candidates, IF lbl # <<>> THEN lbl ELSE NoLabel))

rule_error_handling(root) ==
    ErrorHandlingLoop(ReturnDocumentsShapes(root), 1, <<>>)

\* The first loop comparing the identifier without regard to case
RECURSIVE CollectHitsAnyCase(_, _)
CollectHitsAnyCase(shapes, k) ==
    IF k > Len(shapes) THEN <<>>
    ELSE LET cid == Strip(PyOr(Get(shapes[k], "componentId"), Some(<<>>)).val)
         IN  (IF Lower(cid) \in BLOCKLIST
              THEN << <<cid, shape_label(shapes[k])>> >>
              ELSE <<>>)
             \o CollectHitsAnyCase(shapes, k + 1)

RECURSIVE CollectHits(_, _)
CollectHits(shapes, k) ==
    IF k > Len(shapes) THEN <<>>
    ELSE LET cid == Strip(PyOr(Get(shapes[k], "componentId"), Some(<<>>)).val)
         IN  (IF cid \in BLOCKLIST
              THEN << <<cid, shape_label(shapes[k])>> >>
              ELSE <<>>)
             \o CollectHits(shapes, k + 1)

\* hits, the list the first loop of rule_no_blocklisted_components builds
BlocklistHits(root) == CollectHits(ComponentIdShapes(root), 1)

RECURSIVE DedupLoop(_, _, _, _)
DedupLoop(hits, k, seen, uniq) ==
    IF k > Len(hits) THEN uniq
    ELSE IF hits[k] \notin seen
         THEN DedupLoop(hits, k + 1, seen \cup {hits[k]}, Append(uniq, hits[k]))
         ELSE DedupLoop(hits, k + 1, seen, uniq)

\* The deduplication left out: every hit is kept
DedupNone(hits) == hits

\* Deduplicate while preserving order
Dedup(hits) == DedupLoop(hits, 1, {}, <<>>)

\* f'{cid} ("{lbl}")' if lbl else cid
FormatHit(hit) ==
    IF hit[2] # <<>>
    THEN hit[1] \o <<" ", "(", "\"">> \o hit[2] \o <<"\"", ")">>
    ELSE hit[1]

Min(a, b) == IF a <= b THEN a ELSE b

Rule2Failure(f) ==
    [ok |-> FALSE, msg |-> Msg("rule2_fail", <<>>, f.items, f.more, "")]


\* formatted and more, the two parts of the rule-2 failure message
FormatHits(uniq) ==
    [items |-> [i \in 1..Min(Len(uniq), MaxListed) |-> FormatHit(uniq[i])],
     more |-> IF Len(uniq) <= MaxListed THEN 0 ELSE Len(uniq) - MaxListed]

\* The verdict of rule 2 on the hits collected.
Rule2Verdict(hits) ==
    IF hits = <<>>
    THEN [ok |-> TRUE, msg |-> Msg("rule2_ok", <<>>, <<>>, 0, "")]
    ELSE Rule2Failure(FormatHits(Dedup(hits)))

rule_no_blocklisted_components(root) == Rule2Verdict(BlocklistHits(root))

\* ------------------------------------------------- files and parsing

(***************************************************************************)
(* What a path names on disk.  kind is                                     *)
(*   "missing"     no such file                                            *)
(*   "unreadable"  the path exists and open() raises OSError               *)
(*   "rejected"    content for which the parser raises XMLSyntaxError      *)
(*   "noroot"      content for which the recovering parser builds a        *)
(*                 document with no root element: fromstring returns None  *)
(*   "xml"         content the parser turns into the tree root, which is   *)
(*                 well-formed, or malformed and recovered                 *)
(***************************************************************************)
NoDoc == [nodes |-> <<>>, parent |-> <<>>]
File(kind, wellformed, root) ==
    [kind |-> kind, wellformed |-> wellformed, root |-> root]
XmlFile(wellformed, root) == File("xml", wellformed, root)

\* os.path.exists(path)
PathExists(file) == file.kind # "missing"

\* What the call parse_xml(path) does: raise, or return None or a root.
parse_xml(file) ==
    CASE file.kind \in {"missing", "unreadable"} ->
            [raised |-> TRUE, err |-> "OSError", isNone |-> FALSE, root |-> NoDoc]
      [] file.kind = "rejected" ->
            [raised |-> TRUE, err |-> "XMLSyntaxError", isNone |-> FALSE,
             root |-> NoDoc]
      [] file.kind = "noroot" ->
            [raised |-> FALSE, err |-> "", isNone |-> TRUE, root |-> NoDoc]
      [] file.kind = "xml" ->
            [raised |-> FALSE, err |-> "", isNone |-> FALSE, root |-> file.root]

Result(path, passed, messages) ==
    [path |-> path, passed |-> passed, messages |-> messages]

NoResult == Result("", FALSE, <<>>)

Verdict(path, r1, r2) ==
    [raised |-> FALSE,
     result |-> Result(path, r1.ok /\ r2.ok, <<r1.msg, r2.msg>>)]

(***************************************************************************)
(* validate_file(path): the result it returns, or raised when an exception *)
(* leaves it.  root.xpath on a None root raises AttributeError outside the *)
(* try block.                                                              *)
(***************************************************************************)
validate_file(path, file) ==
    IF ~PathExists(file)
    THEN [raised |-> FALSE,
          result |-> Result(path, FALSE,
                            <<Msg("file_not_found", <<>>, <<>>, 0, "")>>)]
    ELSE LET parsed == parse_xml(file)
         IN  IF parsed.raised
             THEN [raised |-> FALSE,
                   result |-> Result(path, FALSE,
                       <<Msg("xml_parse_error", <<>>, <<>>, 0, parsed.err)>>)]
             ELSE IF parsed.isNone
             THEN [raised |-> TRUE, result |-> NoResult]
             ELSE Verdict(path, rule_error_handling(parsed.root),
                          rule_no_blocklisted_components(parsed.root))

\* ------------------------------------------------------------- report

Line(kind, passed, total, path, msg) ==
    [kind |-> kind, passed |-> passed, total |-> total, path |-> path,
     msg |-> msg]

NoMsg == Msg("", <<>>, <<>>, 0, "")
TitleLine == Line("title", 0, 0, "", NoMsg)
BlankLine == Line("blank", 0, 0, "", NoMsg)
NoFilesLine == Line("no_files_provided", 0, 0, "", NoMsg)

RECURSIVE CountPassed(_)
CountPassed(rs) ==
    IF rs = <<>> THEN 0
    ELSE (IF Head(rs).passed THEN 1 ELSE 0) + CountPassed(Tail(rs))

RECURSIVE Sections(_)
Sections(rs) ==
    IF rs = <<>> THEN <<>>
    ELSE LET r == Head(rs)
         IN  <<Line(IF r.passed THEN "heading_pass" ELSE "heading_fail",
                    0, 0, r.path, NoMsg)>>
             \o [i \in 1..Len(r.messages) |->
                    Line("item", 0, 0, "", r.messages[i])]
             \o <<BlankLine>>
             \o Sections(Tail(rs))

\* "\n".join(lines).rstrip() + "\n": the trailing blank lines go
RECURSIVE RStripLines(_)
RStripLines(lines) ==
    IF lines # <<>> /\ lines[Len(lines)] = BlankLine
    THEN RStripLines(SubSeq(lines, 1, Len(lines) - 1))
    ELSE lines

render_markdown(rs) ==
    RStripLines(<<TitleLine, BlankLine,
                  Line("summary", CountPassed(rs), Len(rs), "", NoMsg),
                  BlankLine>> \o Sections(rs))

\* md of the branch taken with no file argument
UsageMarkdown == <<TitleLine, BlankLine, NoFilesLine>>

\* write_step_summary without its try/except: the failed write raises
write_step_summary_unguarded(text, env, file) ==
    CASE env = "unset" -> [raised |-> FALSE, file |-> file]
      [] env = "writable" -> [raised |-> FALSE, file |-> Append(file, text)]
      [] env = "unwritable" -> [raised |-> TRUE, file |-> file]

(***************************************************************************)
(* write_step_summary(md) under the environment env, which is "unset" (the *)
(* variable is unset or empty), "writable" or "unwritable" (open or write  *)
(* raises).  file is the summary file as a list of the documents appended. *)
(***************************************************************************)
write_step_summary(text, env, file) ==
    CASE env = "unset" -> [raised |-> FALSE, file |-> file]
      [] env = "writable" -> [raised |-> FALSE, file |-> Append(file, text)]
      [] env = "unwritable" -> [raised |-> FALSE, file |-> file]

\* main_exit_code with all() written for any()
main_exit_code_all(rs) ==
    IF \A i \in 1..Len(rs) : ~rs[i].passed THEN 1 ELSE 0

\* 1 if any(not r["passed"] for r in results) else 0
main_exit_code(rs) ==
    IF \E i \in 1..Len(rs) : ~rs[i].passed THEN 1 ELSE 0

\* ---------------------------------------------------------------- state

VARIABLES
    fs,           \* path -> what it names on disk
    argv,         \* sys.argv
    summaryEnv,   \* the state of GITHUB_STEP_SUMMARY
    pc,           \* main's position
    results,      \* the results of the files validated so far
    md,           \* main's local md
    reportFile,   \* boomi-xml-validation-results.md, <<>> before it is written
    stdout,       \* the documents printed
    stderr,       \* the lines printed to stderr
    summaryFile,  \* the documents appended to the CI summary file
    opened,       \* the paths handed to parse_xml
    exitCode      \* <<>> while running, <<code>> once the process has ended

vars == <<fs, argv, summaryEnv, pc, results, md, reportFile, stdout, stderr,
          summaryFile, opened, exitCode>>

Prog == "validate_boomi_xml.py"
Paths == {"a.xml", "b.xml"}

\* argv[1:]
Files == Tail(argv)

\* -------------------------------------------------------------- actions

\* main, lines 124-127: no file argument
MainNoFiles ==
    /\ pc = "start"
    /\ Len(argv) < 2
    /\ md' = UsageMarkdown
    /\ reportFile' = UsageMarkdown
    /\ pc' = "usage_print"
    /\ UNCHANGED <<fs, argv, summaryEnv, results, stdout, stderr,
                   summaryFile, opened, exitCode>>

\* main, lines 128-129
UsagePrint ==
    /\ pc = "usage_print"
    /\ stderr' = Append(stderr, "usage")
    /\ stdout' = Append(stdout, md)
    /\ pc' = "usage_summary"
    /\ UNCHANGED <<fs, argv, summaryEnv, results, md, reportFile,
                   summaryFile, opened, exitCode>>

\* main, line 130
UsageSummary ==
    /\ pc = "usage_summary"
    /\ LET w == write_step_summary(md, summaryEnv, summaryFile)
       IN  /\ summaryFile' = w.file
           /\ pc' = IF w.raised THEN "aborted" ELSE "usage_return"
           /\ exitCode' = IF w.raised THEN <<1>> ELSE exitCode
    /\ UNCHANGED <<fs, argv, summaryEnv, results, md, reportFile, stdout,
                   stderr, opened>>

\* UsageReturn returning the failure code of the other branch
UsageReturn_one ==
    /\ pc = "usage_return"
    /\ exitCode' = <<1>>
    /\ pc' = "done"
    /\ UNCHANGED <<fs, argv, summaryEnv, results, md, reportFile, stdout,
                   stderr, summaryFile, opened>>

\* main, line 131
UsageReturn ==
    /\ pc = "usage_return"
    /\ exitCode' = <<2>>
    /\ pc' = "done"
    /\ UNCHANGED <<fs, argv, summaryEnv, results, md, reportFile, stdout,
                   stderr, summaryFile, opened>>

(***************************************************************************)
(* main, line 133: one call of validate_file in the list comprehension.    *)
(* An exception that leaves validate_file leaves main too; the interpreter *)
(* then ends the process with status 1 and nothing is written.             *)
(***************************************************************************)
ValidateFile ==
    /\ pc \in {"start", "validate"}
    /\ Len(argv) >= 2
    /\ Len(results) < Len(Files)
    /\ \E out \in {validate_file(Files[Len(results) + 1],
                                 fs[Files[Len(results) + 1]])} :
           /\ opened' = IF PathExists(fs[Files[Len(results) + 1]])
                        THEN Append(opened, Files[Len(results) + 1])
                        ELSE opened
           /\ results' = IF out.raised THEN results
                         ELSE Append(results, out.result)
           /\ pc' = IF out.raised THEN "aborted"
                    ELSE IF Len(results) + 1 = Len(Files) THEN "render"
                    ELSE "validate"
           /\ exitCode' = IF out.raised THEN <<1>> ELSE exitCode
    /\ UNCHANGED <<fs, argv, summaryEnv, md, reportFile, stdout, stderr,
                   summaryFile>>

\* main, lines 134-137
WriteReport ==
    /\ pc = "render"
    /\ md' = render_markdown(results)
    /\ reportFile' = render_markdown(results)
    /\ pc' = "print"
    /\ UNCHANGED <<fs, argv, summaryEnv, results, stdout, stderr,
                   summaryFile, opened, exitCode>>

\* main, line 139
PrintReport ==
    /\ pc = "print"
    /\ stdout' = Append(stdout, md)
    /\ pc' = "summary"
    /\ UNCHANGED <<fs, argv, summaryEnv, results, md, reportFile, stderr,
                   summaryFile, opened, exitCode>>

\* main, line 140
StepSummary ==
    /\ pc = "summary"
    /\ LET w == write_step_summary(md, summaryEnv, summaryFile)
       IN  /\ summaryFile' = w.file
           /\ pc' = IF w.raised THEN "aborted" ELSE "return"
           /\ exitCode' = IF w.raised THEN <<1>> ELSE exitCode
    /\ UNCHANGED <<fs, argv, summaryEnv, results, md, reportFile, stdout,
                   stderr, opened>>

\* main, line 142, and sys.exit on line 146
Return ==
    /\ pc = "return"
    /\ exitCode' = <<main_exit_code(results)>>
    /\ pc' = "done"
    /\ UNCHANGED <<fs, argv, summaryEnv, results, md, reportFile, stdout,
                   stderr, summaryFile, opened>>

\* ------------------------------------------------------------- inputs

ErrorPath ==
    <<"E", "r", "r", "o", "r", " ", "P", "a", "t", "h">>
ErrorPathPadded ==
    <<" ", "E", "r", "r", "o", "r", " ", "P", "a", "t", "h">>
ErrorsUpper ==
    <<"E", "R", "R", "O", "R", "S", " ">>
Success ==
    <<"S", "u", "c", "c", "e", "s", "s">>
Blank ==
    <<" ">>
LabelDb ==
    <<"d", "b">>
LabelQueue ==
    <<"m", "q">>
StartType ==
    <<"s", "t", "a", "r", "t">>
ID1Upper ==
    <<"A", "B", "1", "2", "C", "D", "3", "4", "-", "5", "6", "7", "8", "-", "9", "0", "E", "F", "-", "G", "H", "I", "J", "-", "K", "L", "M", "N", "O", "P", "Q", "R", "S", "T", "U", "V">>
ID1Padded ==
    <<" ", "a", "b", "1", "2", "c", "d", "3", "4", "-", "5", "6", "7", "8", "-", "9", "0", "e", "f", "-", "g", "h", "i", "j", "-", "k", "l", "m", "n", "o", "p", "q", "r", "s", "t", "u", "v", " ">>

SeqsUpTo(S, n) == UNION {[1..k -> S] : k \in 0..n}

\* Every element below the root is a child of the root.
FlatParents(n) == [i \in 1..n |-> IF i = 1 THEN 0 ELSE 1]
\* Every element is the only child of the one before it.
NestedParents(n) == [i \in 1..n |-> i - 1]

FlatDoc(nodes) == [nodes |-> nodes, parent |-> FlatParents(Len(nodes))]
NestedDoc(nodes) == [nodes |-> nodes, parent |-> NestedParents(Len(nodes))]

ProcessRoot == Elem("process", None, None, None, None)
ErrorShape == Elem("shape", Some(ReturnDocuments), Some(ErrorPath), None, None)
SuccessShape == Elem("shape", Some(ReturnDocuments), None, Some(Success), None)
BlockedShape == Elem("shape", None, None, None, Some(ID1))

\* The file contents of the runs of main.
MainFiles ==
    {File("missing", FALSE, NoDoc),
     File("unreadable", FALSE, NoDoc),
     File("rejected", FALSE, NoDoc),
     File("noroot", FALSE, NoDoc),
     XmlFile(TRUE, FlatDoc(<<ProcessRoot, ErrorShape>>)),
     XmlFile(FALSE, FlatDoc(<<ProcessRoot, ErrorShape>>)),
     XmlFile(TRUE, FlatDoc(<<ProcessRoot, SuccessShape, BlockedShape>>)),
     XmlFile(TRUE, FlatDoc(<<ErrorShape>>)),
     XmlFile(TRUE, FlatDoc(<<BlockedShape>>))}

InitRun ==
    /\ pc = "start"
    /\ results = <<>>
    /\ md = <<>>
    /\ reportFile = <<>>
    /\ stdout = <<>>
    /\ stderr = <<>>
    /\ summaryFile = <<>>
    /\ opened = <<>>
    /\ exitCode = <<>>

Init ==
    /\ fs \in [Paths -> MainFiles]
    /\ argv \in {<<Prog>> \o s : s \in SeqsUpTo(Paths, MaxFiles)}
    /\ summaryEnv \in {"unset", "writable", "unwritable"}
    /\ InitRun

Next ==
    \/ MainNoFiles
    \/ UsagePrint
    \/ UsageSummary
    \/ UsageReturn
    \/ ValidateFile
    \/ WriteReport
    \/ PrintReport
    \/ StepSummary
    \/ Return

Spec == Init /\ [][Next]_vars

\* ------------------------------------------------- claims about main

Terminated == pc \in {"done", "aborted"}

\* The paths of the report's per-file headings, in the report's order.
HeadingPaths(lines) ==
    LET hs == SelectSeq(lines,
                  LAMBDA l : l.kind \in {"heading_pass", "heading_fail"})
    IN  [i \in 1..Len(hs) |-> hs[i].path]

\* Both rules passed, read off a result's messages.
BothRulesOk(r) ==
    /\ Len(r.messages) = 2
    /\ r.messages[1].kind = "rule1_ok"
    /\ r.messages[2].kind = "rule2_ok"

\* Every file argument has a result and every result has passed = true.
AllFilesPassed ==
    /\ Len(results) = Len(Files)
    /\ \A i \in 1..Len(results) : results[i].passed

(***************************************************************************)
(* C1: a run with at least one file argument ends with exit code 0 if and  *)
(* only if every supplied file has a result with passed = true, which is   *)
(* both rules having passed; otherwise it ends with 1.  A file that is     *)
(* missing or fails to parse is not passed.                                *)
(***************************************************************************)
C1_ExitCodeIffAllPassed ==
    /\ \A i \in 1..Len(results) :
          /\ results[i].passed <=> BothRulesOk(results[i])
          /\ fs[Files[i]].kind \in {"missing", "unreadable", "rejected"}
                => ~results[i].passed
    /\ (Terminated /\ Len(argv) >= 2) =>
          /\ exitCode \in {<<0>>, <<1>>}
          /\ exitCode = <<0>> <=> AllFilesPassed

\* C1's case: two files, the first passed and the second not, exit code 1.
C1_Witness ==
    /\ pc = "done"
    /\ Len(Files) = 2
    /\ Len(results) = 2
    /\ results[1].passed
    /\ ~results[2].passed
    /\ exitCode = <<1>>

(***************************************************************************)
(* C5: every file path on the command line yields exactly one result and   *)
(* the report lists the results in command-line order; a file that does    *)
(* not exist or cannot be read yields a failed result with a message and   *)
(* the files after it are still validated and reported.                    *)
(***************************************************************************)
C5_EveryFileReportedInOrder ==
    (Terminated /\ Len(argv) >= 2) =>
        /\ Len(results) = Len(Files)
        /\ \A i \in 1..Len(results) :
              /\ results[i].path = Files[i]
              /\ fs[Files[i]].kind \in {"missing", "unreadable"} =>
                    /\ ~results[i].passed
                    /\ results[i].messages[1].kind
                          \in {"file_not_found", "xml_parse_error"}
        /\ HeadingPaths(reportFile) = Files

\* Content that is not well-formed XML.
Malformed(file) ==
    \/ file.kind \in {"rejected", "noroot"}
    \/ file.kind = "xml" /\ ~file.wellformed

(***************************************************************************)
(* C6: a file whose content is not well-formed XML, content for which the  *)
(* parser yields no root element included, gets a failed result whose      *)
(* message embeds the parse error, and the run is not aborted: main writes *)
(* the report and returns an exit code.                                    *)
(***************************************************************************)
C6_MalformedIsReported ==
    /\ pc # "aborted"
    /\ pc = "done" =>
          /\ reportFile # <<>>
          /\ exitCode # <<>>
          /\ \A i \in 1..Len(Files) :
                Malformed(fs[Files[i]]) =>
                    /\ Len(results) >= i
                    /\ ~results[i].passed
                    /\ results[i].messages[1].kind = "xml_parse_error"
                    /\ results[i].messages[1].err # ""

(***************************************************************************)
(* C7: with no file argument main returns 2, the report written and        *)
(* printed says that no XML files were provided, and no file is parsed or  *)
(* validated; 2 is the exit code in no other case.                         *)
(***************************************************************************)
C7_NoFilesExitsTwo ==
    /\ Len(argv) < 2 => opened = <<>> /\ results = <<>>
    /\ (Terminated /\ Len(argv) < 2) =>
          /\ exitCode = <<2>>
          /\ \E i \in 1..Len(reportFile) :
                reportFile[i].kind = "no_files_provided"
          /\ stdout = <<reportFile>>
    /\ exitCode = <<2>> => Len(argv) < 2

\* C7's case: a run with no file argument has returned.
C7_Witness ==
    /\ pc = "done"
    /\ Len(argv) < 2
    /\ exitCode = <<2>>

\* The summary step is behind: the report was printed and pc has moved on.
SummaryStepTaken == stdout # <<>> /\ pc \notin {"usage_summary", "summary"}

(***************************************************************************)
(* C9: a failed write of the CI summary file is swallowed.  On both paths  *)
(* of main, once the summary step is behind, main goes on to return, the   *)
(* report file holds what was rendered, and the exit code is the one the   *)
(* results alone decide, whatever the state of GITHUB_STEP_SUMMARY.        *)
(***************************************************************************)
C9_SummaryFailureSwallowed ==
    SummaryStepTaken =>
        /\ pc \in {"usage_return", "return", "done"}
        /\ reportFile = md
        /\ stdout = <<md>>
        /\ summaryEnv = "unwritable" => summaryFile = <<>>
        /\ pc = "done" =>
              exitCode = IF Len(argv) < 2 THEN <<2>>
                         ELSE IF AllFilesPassed THEN <<0>> ELSE <<1>>
        /\ pc # "done" => exitCode = <<>>

\* C9's case: the summary write failed and main returned all the same.
C9_Witness ==
    /\ pc = "done"
    /\ summaryEnv = "unwritable"
    /\ Len(argv) >= 2
    /\ exitCode = <<0>>

\* The claims' reading of "resolved label": userlabel, else label.
ClaimedLabelSource(e) ==
    IF e.userlabel.some THEN e.userlabel.val
    ELSE IF e.label.some THEN e.label.val
    ELSE <<>>

\* s contains "error" in some mix of cases.
ContainsErrorAnyCase(s) ==
    \E i \in 0..Len(s) :
        /\ i + Len(ErrorNeedle) <= Len(s)
        /\ \A k \in 1..Len(ErrorNeedle) :
              s[i + k] = ErrorNeedle[k] \/ LowerChar(s[i + k]) = ErrorNeedle[k]

(***************************************************************************)
(* C2: a file with an element anywhere in the tree, whatever its tag, the  *)
(* root included, whose shapetype is returndocuments and whose resolved    *)
(* label contains "error" in any case, passes rule 1; a file that is one   *)
(* such shape and has no componentId passes and the run exits with 0.      *)
(***************************************************************************)
C2_ErrorShapeAnywherePassesRule1 ==
    \A i \in 1..Len(results) :
        LET file == fs[Files[i]]
        IN  (/\ file.kind = "xml"
             /\ \E j \in 1..Len(file.root.nodes) :
                   /\ file.root.nodes[j].shapetype = Some(ReturnDocuments)
                   /\ ContainsErrorAnyCase(
                          ClaimedLabelSource(file.root.nodes[j])))
            => /\ results[i].messages[1].kind = "rule1_ok"
               /\ (\A j \in 1..Len(file.root.nodes) :
                      ~file.root.nodes[j].componentId.some)
                     => /\ results[i].passed
                        /\ (pc = "done" /\ Len(Files) = 1) => exitCode = <<0>>

(***************************************************************************)
(* C3: a file in which some element carries a componentId that is a member *)
(* of the blocklist fails rule 2, and the rule-2 message contains every    *)
(* blocklisted identifier present.                                         *)
(***************************************************************************)
C3_BlocklistedIdFailsRule2 ==
    \A i \in 1..Len(results) :
        LET file == fs[Files[i]]
        IN  file.kind = "xml" =>
              \A j \in 1..Len(file.root.nodes) :
                 LET cid == file.root.nodes[j].componentId
                 IN  (cid.some /\ cid.val \in BLOCKLIST) =>
                        /\ results[i].messages[2].kind = "rule2_fail"
                        /\ \E k \in 1..Len(results[i].messages[2].items) :
                              Contains(cid.val, results[i].messages[2].items[k])

\* ------------------------------------- runs of validate_file on one file

NextValidate == ValidateFile

(***************************************************************************)
(* One file argument, a.xml, holding a well-formed document: a root of     *)
(* roots with at most n elements of universe below it, all children of the *)
(* root or, with TRUE in nestings, each the only child of the one before.  *)
(***************************************************************************)
InitOneFile(roots, universe, n, nestings) ==
    /\ \E r \in roots : \E k \in 0..n : \E c \in [1..k -> universe] :
          \E nested \in nestings :
             fs = [p \in Paths |->
                     IF p = "a.xml"
                     THEN XmlFile(TRUE, IF nested THEN NestedDoc(<<r>> \o c)
                                        ELSE FlatDoc(<<r>> \o c))
                     ELSE File("missing", FALSE, NoDoc)]
    /\ argv = <<Prog, "a.xml">>
    /\ summaryEnv = "unset"
    /\ InitRun

\* The document of a.xml.
TheDoc == fs["a.xml"].root

Rule1Universe ==
    {Elem(t, st, ul, l, None) :
        t \in {"shape", "step"},
        st \in {Some(ReturnDocuments), Some(StartType)},
        ul \in {None, Some(<<>>), Some(Blank), Some(ErrorPathPadded)},
        l \in {None, Some(ErrorsUpper), Some(Success)}}

InitRule1 ==
    InitOneFile({ProcessRoot, ErrorShape}, Rule1Universe, MaxShapesRule1,
                BOOLEAN)

SpecRule1 == InitRule1 /\ [][NextValidate]_vars

Rule2Universe ==
    {Elem(t, None, None, l, cid) :
        t \in {"shape", "step"},
        l \in {None, Some(LabelDb)},
        cid \in {None, Some(ID1), Some(ID1Padded), Some(ID2), Some(ID1Upper)}}

InitRule2 ==
    InitOneFile({ProcessRoot, BlockedShape}, Rule2Universe, MaxShapesRule2,
                BOOLEAN)

SpecRule2 == InitRule2 /\ [][NextValidate]_vars

DedupUniverse ==
    {Elem("shape", None, ul, None, Some(cid)) :
        ul \in {None, Some(LabelDb), Some(LabelQueue)},
        cid \in {ID1, ID2}}

InitDedup ==
    InitOneFile({ProcessRoot}, DedupUniverse, MaxShapesDedup, {FALSE})

SpecDedup == InitDedup /\ [][NextValidate]_vars

\* ------------------------------------------------ claims about the rules

\* t is s without its leading and trailing whitespace.
IsTrimOf(t, s) ==
    /\ Len(t) <= Len(s)
    /\ t # <<>> => t[1] \notin Whitespace /\ t[Len(t)] \notin Whitespace
    /\ \E i \in 0..(Len(s) - Len(t)) :
          /\ \A k \in 1..i : s[k] \in Whitespace
          /\ \A k \in (i + Len(t) + 1)..Len(s) : s[k] \in Whitespace
          /\ t = SubSeq(s, i + 1, i + Len(t))

\* shown is how the rule-1 failure message shows the trimmed s.
ShownAs(shown, s) ==
    IF IsTrimOf(<<>>, s) THEN shown = NoLabel ELSE IsTrimOf(shown, s)

\* The value the label is resolved from: userlabel unless absent or empty.
LabelSource(e) ==
    IF e.userlabel.some /\ e.userlabel.val # <<>> THEN e.userlabel.val
    ELSE IF e.label.some THEN e.label.val
    ELSE <<>>

\* The rule-1 message of a.xml's result.
Rule1Msg == results[1].messages[1]
\* The rule-2 message of a.xml's result.
Rule2Msg == results[1].messages[2]

(***************************************************************************)
(* C10 as amended: the resolved label of a shape is the trimmed value of   *)
(* userlabel when that attribute is present and not empty, the trimmed     *)
(* value of label when userlabel is absent or empty, and empty when        *)
(* neither gives a value; a blank resolved label is shown as "(no label)"  *)
(* in the rule-1 failure message.                                          *)
(***************************************************************************)
C10_LabelResolution ==
    results # <<>> =>
        LET shapes == ReturnDocumentsShapes(TheDoc)
        IN  /\ Rule1Msg.kind = "rule1_fail_labels" =>
                  /\ Len(Rule1Msg.items) = Len(shapes)
                  /\ \A k \in 1..Len(shapes) :
                        ShownAs(Rule1Msg.items[k], LabelSource(shapes[k]))
            /\ Rule1Msg.kind = "rule1_ok" =>
                  \E k \in 1..Len(shapes) :
                      IsTrimOf(Rule1Msg.label, LabelSource(shapes[k]))

(***************************************************************************)
(* C10 as claimed: the resolved label is the trimmed userlabel whenever    *)
(* that attribute is present, the trimmed label only when userlabel is     *)
(* absent.                                                                 *)
(***************************************************************************)
C10_UserlabelWheneverPresent ==
    (results # <<>> /\ Rule1Msg.kind = "rule1_fail_labels") =>
        LET shapes == ReturnDocumentsShapes(TheDoc)
        IN  \A k \in 1..Len(shapes) :
                ShownAs(Rule1Msg.items[k], ClaimedLabelSource(shapes[k]))

\* C10's case: rule 1 failed over two shapes, one labelled through label
\* behind an empty userlabel, one blank and shown as "(no label)".
C10_Witness ==
    /\ results # <<>>
    /\ Rule1Msg.kind = "rule1_fail_labels"
    /\ Rule1Msg.items = <<Success, NoLabel>>
    /\ \E k \in 1..Len(TheDoc.nodes) :
          /\ TheDoc.nodes[k].userlabel = Some(<<>>)
          /\ TheDoc.nodes[k].label = Some(Success)
    /\ \E k \in 1..Len(TheDoc.nodes) : TheDoc.nodes[k].userlabel = Some(Blank)

\* Some element of the document carries a blocklisted componentId once trimmed.
HasBlocklistedTrimmed(doc) ==
    \E j \in 1..Len(doc.nodes) :
        /\ doc.nodes[j].componentId.some
        /\ \E id \in BLOCKLIST : IsTrimOf(id, doc.nodes[j].componentId.val)

FirstOccurrences(hits) ==
    {i \in 1..Len(hits) : \A j \in 1..(i - 1) : hits[j] # hits[i]}

\* The k-th distinct pair of hits in order of first occurrence.
KthDistinct(hits, k) ==
    hits[CHOOSE i \in FirstOccurrences(hits) :
            Cardinality({j \in FirstOccurrences(hits) : j <= i}) = k]

(***************************************************************************)
(* C8: in the rule-2 failure message a pair (identifier, label) that       *)
(* occurs on several shapes is reported once, the distinct pairs are       *)
(* reported in the order of their first occurrence in the document, and    *)
(* with more than 5 distinct pairs only the first 5 are listed, followed   *)
(* by "+N more" with N the number of distinct pairs minus 5.               *)
(***************************************************************************)
C8_DedupOrderAndTruncation ==
    (results # <<>> /\ Rule2Msg.kind = "rule2_fail") =>
        LET hits == BlocklistHits(TheDoc)
            distinct == Cardinality({hits[i] : i \in 1..Len(hits)})
        IN  /\ Len(Rule2Msg.items) = Min(distinct, MaxListed)
            /\ \A k \in 1..Len(Rule2Msg.items) :
                  Rule2Msg.items[k] = FormatHit(KthDistinct(hits, k))
            /\ \A k \in 1..Len(Rule2Msg.items) :
                  \A l \in 1..Len(Rule2Msg.items) :
                      Rule2Msg.items[k] = Rule2Msg.items[l] => k = l
            /\ Rule2Msg.more = IF distinct > MaxListed
                               THEN distinct - MaxListed ELSE 0

\* C8's case: six hits over three distinct pairs, the first pair on the
\* first, third and sixth shape: three pairs are listed, none counted as more.
C8_Witness ==
    /\ results # <<>>
    /\ Rule2Msg.kind = "rule2_fail"
    /\ Len(BlocklistHits(TheDoc)) = 6
    /\ BlocklistHits(TheDoc)[1] = BlocklistHits(TheDoc)[3]
    /\ BlocklistHits(TheDoc)[1] = BlocklistHits(TheDoc)[6]
    /\ BlocklistHits(TheDoc)[2] # BlocklistHits(TheDoc)[1]
    /\ Len(Rule2Msg.items) = 3
    /\ Rule2Msg.more = 0

====
